---- MODULE Spec2Model ----
(***************************************************************************)
(* Model of homework_01.py: the AddressBook (id allocation, deletion,      *)
(* search, pickle persistence), Record.days_to_birthdate, the Notebook     *)
(* with its Tag manager, and the add-contact and edit-contact commands of  *)
(* AssistantBot.                                                           *)
(*                                                                         *)
(* A Python str is a tuple of one-character strings; a Python dict is a    *)
(* sequence of [key, val] entries in insertion order; None is the empty    *)
(* tuple, and 0 for the unset Record.id.                                   *)
(***************************************************************************)
EXTENDS Integers, Sequences, FiniteSets, TLC

VARIABLES
    data,       \* AddressBook.data: id -> Record, in insertion order
    next_id,    \* AddressBook.next_id
    free_ids,   \* AddressBook.free_ids
    file,       \* the pickle file of the address book: [exists, data]
    out,        \* what the last operation printed or returned
    notes,      \* Notebook.data: title -> note body, in insertion order
    clock,      \* the inputs and the result of Record.days_to_birthdate
    running     \* AssistantBot.main is in its loop (no uncaught exception yet)

vars == <<data, next_id, free_ids, file, out, notes, clock, running>>

(***************************************************************************)
(* Bounds.                                                                 *)
(***************************************************************************)
\* Spec takes add_record only while it leaves next_id <= MaxNextId + 1
MaxNextId == 2

\* SpecAlloc takes add_record only while it leaves next_id <= MaxAllocId + 1
MaxAllocId == 4

(***************************************************************************)
(* Python built-ins.                                                       *)
(***************************************************************************)
Min(S) == CHOOSE x \in S : \A y \in S : x <= y

Max(S) == CHOOSE x \in S : \A y \in S : y <= x

Keys(d) == {d[i].key : i \in 1..Len(d)}

Values(d) == [i \in 1..Len(d) |-> d[i].val]

GetItem(d, k) == d[CHOOSE i \in 1..Len(d) : d[i].key = k].val

\* d[k] = v: an existing key keeps its position, a new key goes last
SetItem(d, k, v) ==
    IF k \in Keys(d)
    THEN [i \in 1..Len(d) |-> IF d[i].key = k THEN [key |-> k, val |-> v] ELSE d[i]]
    ELSE Append(d, [key |-> k, val |-> v])

\* del d[k]
DelItem(d, k) == SelectSeq(d, LAMBDA e : e.key # k)

\* d.update(other)
RECURSIVE Update(_, _)
Update(d, other) ==
    IF other = <<>> THEN d
    ELSE Update(SetItem(d, Head(other).key, Head(other).val), Tail(other))

(***************************************************************************)
(* Record.                                                                 *)
(***************************************************************************)
\* Record.__init__: the id is unset, no phone numbers, emails or address
NewRecord(name, birthdate) ==
    [id |-> 0, name |-> name, phone_numbers |-> <<>>, email_addresses |-> <<>>,
     birthdate |-> birthdate, address |-> <<>>]

\* the records handed to add_record in the allocation specifications
BookNames == {<<"a">>, <<"b">>}

BookRecords == {NewRecord(n, <<>>) : n \in BookNames}

(***************************************************************************)
(* AddressBook.                                                            *)
(***************************************************************************)
\* out: the operation, its last message (or the exception it raised), the id
\* it is about, the search term or note title, the tag, the sequence it
\* returned, the validation messages it printed and the lines the user typed
NoOut ==
    [op |-> "none", msg |-> "none", id |-> 0, term |-> <<>>, tag |-> <<>>,
     found |-> <<>>, printed |-> <<>>, input |-> <<>>]

Out(op, msg, id) == [NoOut EXCEPT !.op = op, !.msg = msg, !.id = id]

NoFile == [exists |-> FALSE, data |-> <<>>]

\* AddressBook.__init__
EmptyBook ==
    /\ data = <<>>
    /\ next_id = 1
    /\ free_ids = {}

\* the while loop of add_record
RECURSIVE AdvanceNextId(_, _, _)
AdvanceNextId(n, keys, free) ==
    IF n \in keys \/ n \in free THEN AdvanceNextId(n + 1, keys, free) ELSE n

\* the id add_record gives the record, n1 being next_id after the while loop
RecordIdMax(free, n1) == IF free # {} THEN Max(free) ELSE n1

RecordId(free, n1) == IF free # {} THEN Min(free) ELSE n1

\* record.id = ...; self.data[record.id] = record
StoreRecordKeepId(d, record, rid) == SetItem(d, rid, record)

StoreRecord(d, record, rid) == SetItem(d, rid, [record EXCEPT !.id = rid])

add_record(record) ==
    LET n1  == AdvanceNextId(next_id, Keys(data), free_ids)
        rid == RecordId(free_ids, n1)
    IN  /\ free_ids' = (IF free_ids # {} THEN free_ids \ {rid} ELSE free_ids)
        /\ next_id' = (IF free_ids # {} THEN n1 ELSE n1 + 1)
        /\ data' = StoreRecord(data, record, rid)
        /\ out' = Out("add_record", "Dodano wpis z ID", rid)
        /\ UNCHANGED <<file, notes, clock>>

(***************************************************************************)
(* Console input: str.replace("ID: ", ""), str.strip() and int().          *)
(***************************************************************************)
IdPrefix == <<"I", "D", ":", " ">>

\* s.replace("ID: ", "")
RECURSIVE RemoveIdPrefix(_)
RemoveIdPrefix(s) ==
    IF Len(s) < Len(IdPrefix) THEN s
    ELSE IF SubSeq(s, 1, Len(IdPrefix)) = IdPrefix
         THEN RemoveIdPrefix(SubSeq(s, Len(IdPrefix) + 1, Len(s)))
         ELSE <<Head(s)>> \o RemoveIdPrefix(Tail(s))

RECURSIVE LStrip(_)
LStrip(s) == IF s # <<>> /\ Head(s) = " " THEN LStrip(Tail(s)) ELSE s

RECURSIVE RStrip(_)
RStrip(s) ==
    IF s # <<>> /\ s[Len(s)] = " " THEN RStrip(SubSeq(s, 1, Len(s) - 1)) ELSE s

\* s.strip()
Strip(s) == RStrip(LStrip(s))

DigitChars == <<"0", "1", "2", "3", "4", "5", "6", "7", "8", "9">>

IsDigit(c) == \E i \in 1..Len(DigitChars) : DigitChars[i] = c

DigitValue(c) == (CHOOSE i \in 1..Len(DigitChars) : DigitChars[i] = c) - 1

\* int(s) raises ValueError unless s is a decimal numeral (no sign, space or
\* underscore occurs in the inputs once they are stripped)
IntRaises(s) == s = <<>> \/ \E i \in 1..Len(s) : ~IsDigit(s[i])

RECURSIVE IntValue(_)
IntValue(s) ==
    IF s = <<>> THEN 0
    ELSE 10 * IntValue(SubSeq(s, 1, Len(s) - 1)) + DigitValue(s[Len(s)])

\* what the user types at an "ID" prompt
IdInputs ==
    {<<DigitChars[n + 1]>> : n \in 0..(MaxAllocId + 1)}
        \cup {<<"x">>, <<>>, IdPrefix \o <<"2">>, <<" ", "1", " ">>}

delete_record_by_id(user_input) ==
    LET record_id_str == Strip(RemoveIdPrefix(Strip(user_input)))
        record_id     == IntValue(record_id_str)
    IN  /\ IF IntRaises(record_id_str)
           THEN /\ out' = Out("delete_record_by_id", "Nieprawidlowe ID", 0)
                /\ UNCHANGED <<data, free_ids>>
           ELSE IF record_id \in Keys(data)
           THEN /\ data' = DelItem(data, record_id)
                /\ free_ids' = free_ids \cup {record_id}
                /\ out' = Out("delete_record_by_id", "Usunieto rekord o ID", record_id)
           ELSE /\ out' = Out("delete_record_by_id",
                               "Nie znaleziono rekordu o podanym ID", record_id)
                /\ UNCHANGED <<data, free_ids>>
        /\ UNCHANGED <<next_id, file, notes, clock>>

\* AddressBook.save: pickle.dump(self.data, f)
save ==
    /\ file' = [exists |-> TRUE, data |-> data]
    /\ out' = Out("save", "none", 0)
    /\ UNCHANGED <<data, next_id, free_ids, notes, clock>>

\* AddressBook.load with the except branch starting over from an empty book
load_missing_clears ==
    /\ IF file.exists
       THEN LET loaded == Update(data, file.data)
            IN  /\ data' = loaded
                /\ next_id' = (IF loaded # <<>> THEN Max(Keys(loaded)) + 1 ELSE next_id)
                /\ out' = Out("load", "none", 0)
       ELSE /\ out' = Out("load", "Plik nie istnieje", 0)
            /\ data' = <<>>
            /\ next_id' = 1
    /\ UNCHANGED <<free_ids, file, notes, clock>>

\* AddressBook.load
load ==
    /\ IF file.exists
       THEN LET loaded == Update(data, file.data)
            IN  /\ data' = loaded
                /\ next_id' = (IF loaded # <<>> THEN Max(Keys(loaded)) + 1 ELSE next_id)
                /\ out' = Out("load", "none", 0)
       ELSE /\ out' = Out("load", "Plik nie istnieje", 0)
            /\ UNCHANGED <<data, next_id>>
    /\ UNCHANGED <<free_ids, file, notes, clock>>

\* load_address_book, called by AssistantBot.__init__ when the program starts;
\* the file, when there is one, is one that save wrote, so pickle.load returns
\* its dict
load_address_book ==
    /\ IF file.exists
       THEN /\ data' = file.data
            /\ out' = Out("load_address_book", "none", 0)
       ELSE /\ data' = <<>>
            /\ out' = Out("load_address_book", "Plik nie istnieje", 0)
    /\ next_id' = 1
    /\ free_ids' = {}
    /\ UNCHANGED <<file, clock>>

NoClock ==
    [today |-> <<>>, birthdate |-> <<>>, result |-> "none", days |-> 0,
     upcoming |-> FALSE]

\* a first run of the program: no file yet, AssistantBot.__init__ has run
Init ==
    /\ EmptyBook
    /\ file = NoFile
    /\ out = NoOut
    /\ notes = <<>>
    /\ clock = NoClock
    /\ running = TRUE

AddRecord ==
    /\ \E record \in BookRecords : add_record(record) /\ next_id' <= MaxNextId + 1
    /\ UNCHANGED running

AllocAddRecord ==
    /\ \E record \in BookRecords : add_record(record) /\ next_id' <= MaxAllocId + 1
    /\ UNCHANGED running

DeleteRecord ==
    /\ \E user_input \in IdInputs : delete_record_by_id(user_input)
    /\ UNCHANGED running

Save == save /\ UNCHANGED running

Load == load /\ UNCHANGED running

\* the program is started again: AssistantBot.__init__ makes a Notebook, whose
\* load_notes finds no file (nothing in the program writes one), and calls
\* load_address_book
Start ==
    /\ notes' = <<>>
    /\ load_address_book
    /\ running' = TRUE

\* inserts and deletes on one AddressBook
NextAlloc == AllocAddRecord \/ DeleteRecord

SpecAlloc == Init /\ [][NextAlloc]_vars

\* inserts, deletes, save, load and a new start of the program
Next == AddRecord \/ DeleteRecord \/ Save \/ Load \/ Start

Spec == Init /\ [][Next]_vars

(***************************************************************************)
(* Properties of the id allocation and of the persistence (C1..C6).        *)
(***************************************************************************)
\* the steps of add_record, load and load_address_book, told by what they print
AddStep == out'.op = "add_record"

LoadedOk == out.op \in {"load", "load_address_book"} /\ out.msg = "none"

LoadedMissing == out.op \in {"load", "load_address_book"} /\ out.msg = "Plik nie istnieje"

\* the id the next add_record would assign in this state
NextAssignedId == RecordId(free_ids, AdvanceNextId(next_id, Keys(data), free_ids))

KeySeq(d) == [i \in 1..Len(d) |-> d[i].key]

\* C1: on a book that only saw inserts and deletes, add_record assigns
\* min(free_ids) when free_ids is non-empty and next_id otherwise, stores the
\* record under that id, and no step makes next_id smaller.
C1_IdReuseOrdering ==
    [][ /\ next_id' >= next_id
        /\ AddStep =>
              /\ out'.id = (IF free_ids # {} THEN Min(free_ids) ELSE next_id)
              /\ Keys(data') = Keys(data) \cup {out'.id}
      ]_vars

\* scenario S1: ids 1, 2, 3 inserted, 2 deleted, the next inserts got 2 and 4
C1_Witness ==
    /\ out.op = "add_record"
    /\ out.id = 4
    /\ KeySeq(data) = <<1, 3, 2, 4>>
    /\ free_ids = {}

\* C2: no id is both live and free, and next_id is not live.
C2_IdsDisjoint ==
    /\ Keys(data) \cap free_ids = {}
    /\ next_id \notin Keys(data)

\* C3: the keys of the book are pairwise distinct and every stored Record's
\* id is the key it is stored under.
C3_IdUniqueness ==
    /\ \A i, j \in 1..Len(data) : i # j => data[i].key # data[j].key
    /\ \A i \in 1..Len(data) : data[i].val.id = data[i].key

\* a load has merged the file into a book holding a record with a reused id
C3_Witness ==
    /\ out.op = "load"
    /\ out.msg = "none"
    /\ Len(data) = 2
    /\ free_ids # {}
    /\ file.data # data

\* C4: after a successful AddressBook.load next_id is max(live keys) + 1, or
\* 1 for an empty book, and free_ids is empty.
C4_LoadResetsCounters ==
    (out.op = "load" /\ out.msg = "none") =>
        /\ next_id = (IF data = <<>> THEN 1 ELSE Max(Keys(data)) + 1)
        /\ free_ids = {}

\* C5: after a successful load the mapping is the file's: the same keys, each
\* with the file's record.
C5_LoadReplaces ==
    LoadedOk =>
        /\ Keys(data) = Keys(file.data)
        /\ \A k \in Keys(data) : GetItem(data, k) = GetItem(file.data, k)

LowerChars == <<"a", "b", "c", "d", "e", "f", "g", "h", "i", "j", "k", "l", "m", "n", "o", "p", "q", "r", "s", "t", "u", "v", "w", "x", "y", "z">>

UpperChars == <<"A", "B", "C", "D", "E", "F", "G", "H", "I", "J", "K", "L", "M", "N", "O", "P", "Q", "R", "S", "T", "U", "V", "W", "X", "Y", "Z">>

IsLetter(c) == \E i \in 1..Len(LowerChars) : LowerChars[i] = c \/ UpperChars[i] = c

LowerChar(c) ==
    IF \E i \in 1..Len(UpperChars) : UpperChars[i] = c
    THEN LowerChars[CHOOSE i \in 1..Len(UpperChars) : UpperChars[i] = c]
    ELSE c

\* s.lower()
Lower(s) == [i \in 1..Len(s) |-> LowerChar(s[i])]

\* sub in s
Contains(sub, s) ==
    \E i \in 1..(Len(s) + 1) :
        /\ i + Len(sub) - 1 <= Len(s)
        /\ SubSeq(s, i, i + Len(sub) - 1) = sub

(***************************************************************************)
(* Field validators.                                                       *)
(***************************************************************************)
\* PhoneNumber.validate_phone: ^\d{9}$
validate_phone(value) ==
    /\ Len(value) = 9
    /\ \A i \in 1..Len(value) : IsDigit(value[i])

EmailLocalChar(c) == IsLetter(c) \/ IsDigit(c) \/ c \in {"_", ".", "+", "-"}

EmailDomainChar(c) == IsLetter(c) \/ IsDigit(c) \/ c = "-"

EmailTailChar(c) == IsLetter(c) \/ IsDigit(c) \/ c \in {"-", "."}

\* EmailAddress.validate_email: ^[a-zA-Z0-9_.+-]+@[a-zA-Z0-9-]+\.[a-zA-Z0-9-.]+$
validate_email(value) ==
    \E i, j \in 1..Len(value) :
        /\ value[i] = "@"
        /\ value[j] = "."
        /\ 1 < i
        /\ i + 1 < j
        /\ j < Len(value)
        /\ \A k \in 1..(i - 1) : EmailLocalChar(value[k])
        /\ \A k \in (i + 1)..(j - 1) : EmailDomainChar(value[k])
        /\ \A k \in (j + 1)..Len(value) : EmailTailChar(value[k])

(***************************************************************************)
(* AddressBook.find_record.                                                *)
(***************************************************************************)
\* SpecFind takes add_record only while it leaves next_id <= MaxFindId + 1
MaxFindId == 2

JanKowalski == <<"J", "a", "n", " ", "K", "o", "w", "a", "l", "s", "k", "i">>

AnnaNowak == <<"A", "n", "n", "a", " ", "N", "o", "w", "a", "k">>

Bob == <<"B", "o", "b">>

Phone501 == <<"5", "0", "1", "5", "0", "1", "5", "0", "1">>

Phone602 == <<"6", "0", "2", "6", "0", "2", "6", "0", "2">>

JanMail == <<"j", "a", "n", "@", "x", ".", "p", "l">>

AnnaMail == <<"a", "n", "n", "a", "@", "y", ".", "p", "l">>

BobMail == <<"j", "a", "n", "5", "0", "1", "@", "x", ".", "p", "l">>

\* Record.add_phone_number / Record.add_email_address
add_phone_number(record, phone_number) ==
    [record EXCEPT !.phone_numbers = Append(@, phone_number)]

add_email_address(record, email_address) ==
    [record EXCEPT !.email_addresses = Append(@, email_address)]

\* a contact with one phone number and one email address, both valid
Contact(name, phone, email) ==
    add_email_address(add_phone_number(NewRecord(name, <<>>), phone), email)

FindContacts ==
    {Contact(c[1], c[2], c[3]) :
        c \in {x \in {<<JanKowalski, Phone501, JanMail>>,
                      <<AnnaNowak, Phone602, AnnaMail>>,
                      <<Bob, Phone501, BobMail>>} :
                   validate_phone(x[2]) /\ validate_email(x[3])}}

SearchTerms ==
    {<<"k", "o", "w">>,
     <<"J", "A", "N">>,
     <<"j", "a", "n">>,
     <<"6", "0", "2">>,
     <<"5", "0", "1">>,
     <<"@">>,
     <<"z", "z">>, <<>>}

\* one pass of the for loop of find_record over a record: what it appends
FoundIn(record, search_term) ==
    IF Contains(Lower(search_term), Lower(record.name))
    THEN <<record>>
    ELSE (IF \E i \in 1..Len(record.phone_numbers) :
                Contains(search_term, record.phone_numbers[i])
          THEN <<record>> ELSE <<>>)
         \o
         (IF \E i \in 1..Len(record.email_addresses) :
                Contains(search_term, record.email_addresses[i])
          THEN <<record>> ELSE <<>>)

RECURSIVE FoundRecords(_, _)
FoundRecords(values, search_term) ==
    IF values = <<>> THEN <<>>
    ELSE FoundIn(Head(values), search_term) \o FoundRecords(Tail(values), search_term)

find_record(search_term) ==
    /\ out' = [Out("find_record", "none", 0) EXCEPT
                   !.term = search_term,
                   !.found = FoundRecords(Values(data), search_term)]
    /\ UNCHANGED <<data, next_id, free_ids, file, notes, clock>>

FindAddRecord ==
    /\ \E record \in FindContacts : add_record(record) /\ next_id' <= MaxFindId + 1
    /\ UNCHANGED running

FindRecord ==
    /\ \E search_term \in SearchTerms : find_record(search_term)
    /\ UNCHANGED running

NextFind == FindAddRecord \/ DeleteRecord \/ FindRecord

SpecFind == Init /\ [][NextFind]_vars

(***************************************************************************)
(* Search (C7).                                                            *)
(***************************************************************************)
\* the record matches the term: its name case-insensitively, or one of its
\* phone numbers or email addresses case-sensitively
Matches(record, term) ==
    \/ Contains(Lower(term), Lower(record.name))
    \/ \E i \in 1..Len(record.phone_numbers) : Contains(term, record.phone_numbers[i])
    \/ \E i \in 1..Len(record.email_addresses) : Contains(term, record.email_addresses[i])

\* C7: find_record returns, in insertion order, exactly the matching records,
\* each of them once.
C7_FindEachOnce ==
    out.op = "find_record" =>
        out.found = SelectSeq(Values(data), LAMBDA r : Matches(r, out.term))

(***************************************************************************)
(* Dates: datetime.strptime(value, "%Y-%m-%d"), datetime.replace and the   *)
(* difference of two datetimes.                                            *)
(***************************************************************************)
IsLeap(y) == (y % 4 = 0 /\ y % 100 # 0) \/ y % 400 = 0

DaysInMonth(y, m) ==
    IF m = 2 THEN (IF IsLeap(y) THEN 29 ELSE 28)
    ELSE IF m \in {4, 6, 9, 11} THEN 30 ELSE 31

\* the date exists in the Gregorian calendar
ValidDate(y, m, d) == y >= 1 /\ m \in 1..12 /\ d >= 1 /\ d <= DaysInMonth(y, m)

RECURSIVE DaysBeforeMonth(_, _)
DaysBeforeMonth(y, m) ==
    IF m = 1 THEN 0 ELSE DaysBeforeMonth(y, m - 1) + DaysInMonth(y, m - 1)

\* date.toordinal(): days since 0001-01-01, that day being 1
Ordinal(y, m, d) ==
    365 * (y - 1) + ((y - 1) \div 4) - ((y - 1) \div 100) + ((y - 1) \div 400)
        + DaysBeforeMonth(y, m) + d

\* the fields of "YYYY-MM-DD": the runs of characters between the dashes
RECURSIVE SplitAt(_, _)
SplitAt(s, sep) ==
    IF \A i \in 1..Len(s) : s[i] # sep THEN <<s>>
    ELSE LET i == CHOOSE k \in 1..Len(s) :
                      s[k] = sep /\ \A l \in 1..(k - 1) : s[l] # sep
         IN  <<SubSeq(s, 1, i - 1)>> \o SplitAt(SubSeq(s, i + 1, Len(s)), sep)

\* datetime.strptime(value, "%Y-%m-%d") raises ValueError: %Y is four digits,
\* %m and %d are one or two digits, and the date must exist
StrptimeRaises(value) ==
    LET f == SplitAt(value, "-")
    IN  \/ Len(f) # 3
        \/ Len(f[1]) # 4 \/ IntRaises(f[1])
        \/ Len(f[2]) \notin {1, 2} \/ IntRaises(f[2])
        \/ Len(f[3]) \notin {1, 2} \/ IntRaises(f[3])
        \/ ~ValidDate(IntValue(f[1]), IntValue(f[2]), IntValue(f[3]))

\* the datetime strptime returns: that date at 00:00:00
Strptime(value) ==
    LET f == SplitAt(value, "-")
    IN  [year |-> IntValue(f[1]), month |-> IntValue(f[2]), day |-> IntValue(f[3]),
         second |-> 0]

\* BirthDate.validate_birthdate
validate_birthdate(value) == ~StrptimeRaises(value)

\* a - b in seconds
SecondsBetween(a, b) ==
    (Ordinal(a.year, a.month, a.day) - Ordinal(b.year, b.month, b.day)) * (24 * 60 * 60)
        + (a.second - b.second)

\* timedelta.days of a - b: the difference in whole days, rounded down
DeltaDays(a, b) == SecondsBetween(a, b) \div (24 * 60 * 60)

\* the str of a number in at least `width` digits
RECURSIVE Digits(_, _)
Digits(n, width) ==
    IF n < 10 /\ width <= 1 THEN <<DigitChars[n + 1]>>
    ELSE Digits(n \div 10, width - 1) \o <<DigitChars[(n % 10) + 1]>>

\* a birthdate as the user types it
DateStr(y, m, d) == Digits(y, 4) \o <<"-">> \o Digits(m, 2) \o <<"-">> \o Digits(d, 2)

(***************************************************************************)
(* Record.days_to_birthdate and the test of                                *)
(* AssistantBot.display_contacts_with_birthdays.                           *)
(***************************************************************************)
ClockMonths == {1, 2, 3, 12}

ClockDays == {1, 7, 8, 28, 29, 31}

\* datetime.now(): a date of a common or of a leap year, at midnight sharp or
\* at ten in the morning
Nows ==
    {[year |-> y, month |-> m, day |-> d, second |-> t] :
        y \in {2023, 2024}, m \in ClockMonths,
        d \in {x \in ClockDays : x <= 29}, t \in {0, 10 * 60 * 60}}
    \cup
    {[year |-> y, month |-> m, day |-> 31, second |-> t] :
        y \in {2023, 2024}, m \in ClockMonths \ {2}, t \in {0, 10 * 60 * 60}}

\* the values of BirthDate fields: strings that passed validate_birthdate
BirthDates ==
    {v \in {DateStr(2000, m, d) : m \in ClockMonths, d \in ClockDays} :
        validate_birthdate(v)}

\* the result of days_to_birthdate for a birthdate value when now() is today
DaysToBirthdate(value, today) ==
    IF value = <<>>
    THEN [result |-> "Brak daty urodzenia", days |-> 0, upcoming |-> FALSE]
    ELSE
    LET bday == Strptime(value)
        raised == [result |-> "ValueError", days |-> 0, upcoming |-> FALSE]
    IN  IF ~ValidDate(today.year, bday.month, bday.day)
        THEN raised
        ELSE
        LET this_year == [bday EXCEPT !.year = today.year]
            passed    == SecondsBetween(today, this_year) > 0
        IN  IF passed /\ ~ValidDate(today.year + 1, bday.month, bday.day)
            THEN raised
            ELSE
            LET next_birthday ==
                    IF passed THEN [this_year EXCEPT !.year = today.year + 1]
                    ELSE this_year
                days == DeltaDays(next_birthday, today)
            IN  [result |-> "int", days |-> days, upcoming |-> days < 7]

days_to_birthdate ==
    /\ clock.result = "none"
    /\ clock' = [today |-> clock.today, birthdate |-> clock.birthdate]
                    @@ DaysToBirthdate(clock.birthdate, clock.today)
    /\ UNCHANGED <<data, next_id, free_ids, file, out, notes, running>>

\* a record with a birthdate, and a moment at which days_to_birthdate is called
InitBirthday ==
    /\ EmptyBook
    /\ file = NoFile
    /\ out = NoOut
    /\ notes = <<>>
    /\ running = TRUE
    /\ \E today \in Nows, value \in BirthDates :
           clock = [today |-> today, birthdate |-> value, result |-> "none",
                    days |-> 0, upcoming |-> FALSE]

NextBirthday == days_to_birthdate

SpecBirthday == InitBirthday /\ [][NextBirthday]_vars

(***************************************************************************)
(* Birthday arithmetic (C8).                                               *)
(***************************************************************************)
\* C8: days_to_birthdate returns an integer in [0, 366], and 0 exactly when
\* the month and day of now() are those of the birthdate.
C8_BirthdayArithmetic ==
    clock.result # "none" =>
        /\ clock.result = "int"
        /\ clock.days \in 0..366
        /\ clock.days = 0 <=>
              /\ clock.today.month = Strptime(clock.birthdate).month
              /\ clock.today.day = Strptime(clock.birthdate).day

(***************************************************************************)
(* Notebook and Tag.  A note body is a str (what AssistantBot.add_note     *)
(* stores) or a dict that may hold a "tags" list (what Tag works on).      *)
(***************************************************************************)
\* tag_note is not taken once the note holds MaxTags tags
MaxTags == 2

StrBody(text) == [kind |-> "str", text |-> text, has_tags |-> FALSE, tags |-> <<>>]

\* the dict {}
EmptyDictBody == [kind |-> "dict", text |-> <<>>, has_tags |-> FALSE, tags |-> <<>>]

TagsKey == <<"t", "a", "g", "s">>

Titles == {<<"t", "o", "d", "o">>, <<"x">>}

Contents == {<<"m", "i", "l", "k">>, <<"m", "y", " ", "t", "a", "g", "s">>}

Tags == {<<"w", "o", "r", "k">>, <<"u", "r", "g", "e", "n", "t">>}

\* "tags" in content: a substring test on a str, a key test on a dict
HasTagsKey(content) ==
    IF content.kind = "str" THEN Contains(TagsKey, content.text) ELSE content.has_tags

\* Notebook.add_note
notebook_add_note(note_title, note_content) ==
    /\ notes' = SetItem(notes, note_title, note_content)
    /\ out' = [Out("add_note", "Notatka zostala dodana", 0) EXCEPT !.term = note_title]
    /\ UNCHANGED <<data, next_id, free_ids, file, clock>>

\* Tag.tag_note: indexing a str with "tags" and assigning to it both raise
\* TypeError
tag_note(note_title, tag) ==
    /\ IF note_title \in Keys(notes)
       THEN LET content == GetItem(notes, note_title)
            IN  IF content.kind = "str"
                THEN /\ out' = [Out("tag_note", "TypeError", 0) EXCEPT
                                    !.term = note_title, !.tag = tag]
                     /\ UNCHANGED notes
                ELSE /\ notes' = SetItem(notes, note_title,
                                     IF HasTagsKey(content)
                                     THEN [content EXCEPT !.tags = Append(@, tag)]
                                     ELSE [content EXCEPT !.has_tags = TRUE,
                                                          !.tags = <<tag>>])
                     /\ out' = [Out("tag_note", "Dodano tag do notatki", 0) EXCEPT
                                    !.term = note_title, !.tag = tag]
       ELSE /\ out' = [Out("tag_note", "Nie znaleziono notatki o podanym tytule", 0)
                           EXCEPT !.term = note_title, !.tag = tag]
            /\ UNCHANGED notes
    /\ UNCHANGED <<data, next_id, free_ids, file, clock>>

\* tag in content["tags"] raises TypeError for a str content
NoteTestRaises(content) == content.kind = "str" /\ HasTagsKey(content)

NoteHasTag(content, tag) ==
    HasTagsKey(content) /\ \E i \in 1..Len(content.tags) : content.tags[i] = tag

\* Tag.find_notes_by_tag: the (title, content) pairs, or TypeError when the
\* loop comes to a str content holding the text "tags"
find_notes_by_tag(tag) ==
    /\ IF \E i \in 1..Len(notes) : NoteTestRaises(notes[i].val)
       THEN out' = [Out("find_notes_by_tag", "TypeError", 0) EXCEPT !.tag = tag]
       ELSE out' = [Out("find_notes_by_tag", "none", 0) EXCEPT
                        !.tag = tag,
                        !.found = SelectSeq(notes, LAMBDA e : NoteHasTag(e.val, tag))]
    /\ UNCHANGED <<data, next_id, free_ids, file, notes, clock>>

\* AssistantBot.add_note: title and content are the typed strings
AddNote ==
    /\ running
    /\ \E title \in Titles, content \in Contents :
           notebook_add_note(title, StrBody(content))
    /\ UNCHANGED running

\* Notebook.add_note called with a dict for the content
AddDictNote ==
    /\ running
    /\ \E title \in Titles : notebook_add_note(title, EmptyDictBody)
    /\ UNCHANGED running

\* AssistantBot.add_tag_to_note: an uncaught TypeError ends main
AddTagToNote ==
    /\ running
    /\ \E title \in Titles, tag \in Tags :
           /\ title \in Keys(notes) => Len(GetItem(notes, title).tags) < MaxTags
           /\ IF title \in Keys(notes)
              THEN tag_note(title, tag)
              ELSE /\ out' = [Out("add_tag_to_note",
                                  "Nie znaleziono notatki o podanym tytule", 0)
                                  EXCEPT !.term = title]
                   /\ UNCHANGED <<data, next_id, free_ids, file, notes, clock>>
    /\ running' = (out'.msg # "TypeError")

\* AssistantBot.find_notes_by_tag: an uncaught TypeError ends main
FindNotesByTag ==
    /\ running
    /\ \E tag \in Tags : find_notes_by_tag(tag)
    /\ running' = (out'.msg # "TypeError")

Restart == ~running /\ Start

NextNotes == AddNote \/ AddDictNote \/ AddTagToNote \/ FindNotesByTag \/ Restart

SpecNotes == Init /\ [][NextNotes]_vars

(***************************************************************************)
(* Tagging (C9).                                                           *)
(***************************************************************************)
Count(seq, x) == Cardinality({i \in 1..Len(seq) : seq[i] = x})

\* C9: tagging a note that exists succeeds and adds one occurrence of the tag
\* to its tags list, so that tagging twice with x leaves x twice, for a note
\* with a plain-string body too; find_by_tag returns each note carrying the
\* tag once and no other note.
C9_TagTwice ==
    [][ /\ (out'.op = "tag_note" /\ out'.term \in Keys(notes)) =>
              /\ out'.msg = "Dodano tag do notatki"
              /\ Count(GetItem(notes', out'.term).tags, out'.tag)
                     = Count(GetItem(notes, out'.term).tags, out'.tag) + 1
        /\ out'.op = "find_notes_by_tag" =>
              /\ out'.msg = "none"
              /\ out'.found = SelectSeq(notes', LAMBDA e :
                                  \E i \in 1..Len(e.val.tags) : e.val.tags[i] = out'.tag)
      ]_vars

(***************************************************************************)
(* AssistantBot.add_contact and AssistantBot.edit_contact.                 *)
(***************************************************************************)
\* SpecEdit takes add_contact only while it leaves next_id <= MaxContacts + 1
MaxContacts == 1

\* Address.__init__
Address(street, city, postal_code, country) ==
    [street |-> street, city |-> city, postal_code |-> postal_code,
     country |-> country,
     value |-> street \o <<",", " ">> \o city \o <<",", " ">> \o postal_code
                   \o <<",", " ">> \o country]

\* number.strip() for each part of input(...).split(",")
StripAll(parts) == [i \in 1..Len(parts) |-> Strip(parts[i])]

\* the for loop over the phone numbers: the stripped, non-empty parts that
\* PhoneNumber accepts, in order
ValidPhones(parts) ==
    SelectSeq(StripAll(parts), LAMBDA part : part # <<>> /\ validate_phone(part))

\* the messages its except ValueError branch prints
InvalidPhones(parts) ==
    [i \in 1..Len(SelectSeq(StripAll(parts),
                            LAMBDA part : part # <<>> /\ ~validate_phone(part)))
        |-> "Niepoprawny numer telefonu"]

\* the for loop over the email addresses
ValidEmails(parts) ==
    SelectSeq(StripAll(parts), LAMBDA part : part # <<>> /\ validate_email(part))

InvalidEmails(parts) ==
    [i \in 1..Len(SelectSeq(StripAll(parts),
                            LAMBDA part : part # <<>> /\ ~validate_email(part)))
        |-> "Niepoprawny adres email"]

\* print(record) calls Record.__str__, which calls days_to_birthdate when the
\* record has a birthdate: a ValueError of datetime.replace comes out of it
StrRaises(record, today) ==
    /\ record.birthdate # <<>>
    /\ DaysToBirthdate(record.birthdate, today).result = "ValueError"

\* AssistantBot.add_contact; in is the lines typed at its eight prompts (the
\* last six are not asked for when the birthdate is refused)
add_contact(in) ==
    IF in.birthdate # <<>> /\ ~validate_birthdate(in.birthdate)
    THEN \* BirthDate(birthdate) raises ValueError, which nothing catches
         /\ out' = [Out("add_contact", "ValueError", 0) EXCEPT
                        !.input = [name |-> in.name, birthdate |-> in.birthdate]]
         /\ running' = FALSE
         /\ UNCHANGED <<data, next_id, free_ids, file, notes, clock>>
    ELSE LET parsed ==
                 [NewRecord(in.name, in.birthdate) EXCEPT
                      !.phone_numbers =
                          ValidPhones(SplitAt(in.phone_numbers, ",")),
                      !.email_addresses =
                          ValidEmails(SplitAt(in.email_addresses, ",")),
                      !.address = Address(in.street, in.city, in.postal_code,
                                          in.country)]
             n1  == AdvanceNextId(next_id, Keys(data), free_ids)
             rid == RecordId(free_ids, n1)
         IN  /\ free_ids' = (IF free_ids # {} THEN free_ids \ {rid} ELSE free_ids)
             /\ next_id' = (IF free_ids # {} THEN n1 ELSE n1 + 1)
             /\ data' = StoreRecord(data, parsed, rid)
             /\ out' = [Out("add_contact", "Kontakt zostal dodany", rid) EXCEPT
                            !.input = in,
                            !.printed =
                                InvalidPhones(SplitAt(in.phone_numbers, ","))
                                \o InvalidEmails(SplitAt(in.email_addresses, ","))]
             /\ running' = TRUE
             /\ UNCHANGED <<file, notes, clock>>

\* AssistantBot.edit_contact; in is the lines typed at its prompts (only the
\* first is asked for when the id is not a number or not in the book, or when
\* print(record) raises) and today is datetime.now()
edit_contact(in, today) ==
    LET record_id_str == Strip(in.id)
        record_id     == IntValue(record_id_str)
        \* the only prompt reached when the edit ends early
        asked         == [id |-> in.id]
    IN  /\ IF IntRaises(record_id_str)
           THEN /\ out' = [Out("edit_contact", "Nieprawidlowe ID", 0) EXCEPT
                               !.input = asked]
                /\ UNCHANGED data
           ELSE IF record_id \notin Keys(data)
           THEN /\ out' = [Out("edit_contact", "Nie znaleziono rekordu o podanym ID",
                               record_id) EXCEPT !.input = asked]
                /\ UNCHANGED data
           ELSE IF StrRaises(GetItem(data, record_id), today)
           THEN \* the ValueError of print(record) lands in except ValueError
                /\ out' = [Out("edit_contact", "Nieprawidlowe ID", record_id) EXCEPT
                               !.input = asked]
                /\ UNCHANGED data
           ELSE LET record == GetItem(data, record_id)
                    edited ==
                        [record EXCEPT
                             !.name = IF in.name # <<>> THEN in.name ELSE @,
                             !.birthdate =
                                 IF in.birthdate # <<>> /\ validate_birthdate(in.birthdate)
                                 THEN in.birthdate ELSE @,
                             !.phone_numbers =
                                 ValidPhones(SplitAt(in.phone_numbers, ",")),
                             !.email_addresses =
                                 ValidEmails(SplitAt(in.email_addresses, ",")),
                             !.address =
                                 IF \/ in.street # <<>> \/ in.city # <<>>
                                    \/ in.postal_code # <<>> \/ in.country # <<>>
                                 THEN Address(in.street, in.city, in.postal_code,
                                              in.country)
                                 ELSE @]
                IN  /\ data' = SetItem(data, record_id, edited)
                    /\ out' = [Out("edit_contact", "Dane kontaktu zostaly zaktualizowane",
                                   record_id) EXCEPT
                                   !.input = in,
                                   !.printed =
                                       (IF in.birthdate # <<>>
                                           /\ ~validate_birthdate(in.birthdate)
                                        THEN <<"Niepoprawna data urodzenia">>
                                        ELSE <<>>)
                                       \o InvalidPhones(SplitAt(in.phone_numbers, ","))
                                       \o InvalidEmails(SplitAt(in.email_addresses, ","))]
        /\ UNCHANGED <<next_id, free_ids, file, notes, clock, running>>

Blank == <<>>

Ewa == <<"E", "w", "a">>

PhoneInputs == {Blank, <<"6", "0", "2", "6", "0", "2", "6", "0", "2", ",", " ", "1", "2">>}

EmailInputs == {Blank, <<"e", "w", "a", "@", "y", ".", "p", "l", ",", "b", "a", "d">>}

\* the four address prompts: all blank, or only the last one filled
AddressInputs ==
    {[street |-> Blank, city |-> Blank, postal_code |-> Blank, country |-> Blank],
     [street |-> Blank, city |-> Blank, postal_code |-> Blank, country |-> <<"P", "L">>]}

FullAddress ==
    [street |-> <<"S">>, city |-> <<"C">>, postal_code |-> <<"0", "1">>,
     country |-> <<"P", "L">>]

AddInputs ==
    {[name |-> n, birthdate |-> b, phone_numbers |-> p, email_addresses |-> e,
      street |-> a.street, city |-> a.city, postal_code |-> a.postal_code,
      country |-> a.country] :
        n \in {Bob}, b \in {Blank, DateStr(2000, 2, 29), DateStr(2001, 2, 30)},
        p \in {Blank, Phone501}, e \in {BobMail}, a \in {FullAddress}}

EditInputs ==
    {[id |-> i, name |-> n, birthdate |-> b, phone_numbers |-> p,
      email_addresses |-> e, street |-> a.street, city |-> a.city,
      postal_code |-> a.postal_code, country |-> a.country] :
        i \in {<<" ", "1">>, <<"2">>, <<"x">>}, n \in {Blank, Ewa},
        b \in {Blank, DateStr(2001, 2, 3), DateStr(2001, 2, 30)},
        p \in PhoneInputs, e \in EmailInputs, a \in AddressInputs}

\* datetime.now() when the contact is edited
EditNows ==
    {[year |-> 2023, month |-> 3, day |-> 1, second |-> 10 * 60 * 60],
     [year |-> 2024, month |-> 2, day |-> 1, second |-> 0]}

AddContact ==
    /\ running
    /\ \E in \in AddInputs : add_contact(in) /\ next_id' <= MaxContacts + 1

EditContact ==
    /\ running
    /\ \E in \in EditInputs, today \in EditNows : edit_contact(in, today)

NextEdit == AddContact \/ EditContact \/ Restart

SpecEdit == Init /\ [][NextEdit]_vars

(***************************************************************************)
(* Editing a contact (C10).                                                *)
(***************************************************************************)
\* C10: when edit_contact updates a record, every prompt answered with a
\* blank line leaves its field as it was: the name, the birthdate, the phone
\* numbers, the email addresses and, with all four address prompts blank,
\* the address.
C10_BlankKeepsField ==
    [][ (out'.op = "edit_contact"
            /\ out'.msg = "Dane kontaktu zostaly zaktualizowane") =>
            LET in  == out'.input
                old == GetItem(data, out'.id)
                new == GetItem(data', out'.id)
            IN  /\ in.name = Blank => new.name = old.name
                /\ in.birthdate = Blank => new.birthdate = old.birthdate
                /\ in.phone_numbers = Blank => new.phone_numbers = old.phone_numbers
                /\ in.email_addresses = Blank =>
                       new.email_addresses = old.email_addresses
                /\ (in.street = Blank /\ in.city = Blank /\ in.postal_code = Blank
                        /\ in.country = Blank) => new.address = old.address
      ]_vars

(***************************************************************************)
(* Adding a contact (C11).                                                 *)
(***************************************************************************)
\* SpecAdd takes add_contact only while it leaves next_id <= MaxAdded + 1
MaxAdded == 2

\* the lines typed at the prompts of add_contact: a blank, a valid (Feb 29 of
\* a leap year) and an invalid birthdate; no, one valid, and one valid with
\* one invalid phone number and email address
ContactInputs ==
    {[name |-> n, birthdate |-> b, phone_numbers |-> p, email_addresses |-> e,
      street |-> a.street, city |-> a.city, postal_code |-> a.postal_code,
      country |-> a.country] :
        n \in {Bob}, b \in {Blank, DateStr(2000, 2, 29), DateStr(2001, 2, 30)},
        p \in PhoneInputs \cup {Phone501}, e \in EmailInputs \cup {BobMail},
        a \in {FullAddress}}

\* choice "1" of AssistantBot.main
AddAnyContact ==
    /\ running
    /\ \E in \in ContactInputs : add_contact(in) /\ next_id' <= MaxAdded + 1

NextAdd == AddAnyContact \/ Restart

SpecAdd == Init /\ [][NextAdd]_vars

\* C11: add_contact, whatever field fails its validation (the birthdate, a
\* phone number or an email address), leaves the menu loop running and
\* inserts the contact: one more record, under the assigned id, holding the
\* name, the birthdate when it is valid, the valid phone numbers and email
\* addresses in the order typed, and one message printed for each refused
\* value.
C11_InvalidFieldSkipped ==
    [][ (running /\ out'.op = "add_contact") =>
            /\ running'
            /\ out'.msg = "Kontakt zostal dodany"
            /\ out'.id \notin Keys(data)
            /\ Keys(data') = Keys(data) \cup {out'.id}
            /\ LET in  == out'.input
                   new == GetItem(data', out'.id)
                   bad == in.birthdate # Blank /\ ~validate_birthdate(in.birthdate)
               IN  /\ new.name = in.name
                   /\ new.birthdate = (IF bad THEN Blank ELSE in.birthdate)
                   /\ new.phone_numbers = ValidPhones(SplitAt(in.phone_numbers, ","))
                   /\ new.email_addresses = ValidEmails(SplitAt(in.email_addresses, ","))
                   /\ Len(out'.printed) =
                          (IF bad THEN 1 ELSE 0)
                          + Len(InvalidPhones(SplitAt(in.phone_numbers, ",")))
                          + Len(InvalidEmails(SplitAt(in.email_addresses, ",")))
      ]_vars

(***************************************************************************)
(* Inserting into a book that was saved and loaded (C12).                  *)
(***************************************************************************)
\* add_record, delete_record_by_id, save and AddressBook.load on the one
\* AddressBook the program started with
NextPersist == AddRecord \/ DeleteRecord \/ Save \/ Load

SpecPersist == Init /\ [][NextPersist]_vars

\* C12: the id add_record assigns is not a live key just before the insert:
\* the insert makes the book one record longer and leaves every record that
\* was live under its key, unchanged.
C12_AddNeverOverwrites ==
    [][ AddStep =>
            /\ out'.id \notin Keys(data)
            /\ Len(data') = Len(data) + 1
            /\ \A k \in Keys(data) :
                   k \in Keys(data') /\ GetItem(data', k) = GetItem(data, k)
      ]_vars

====
